---- MODULE Spec2Model ----
(***************************************************************************)
(* RouteModel (aircraft/FlightManagementSystem/RouteModel.js): the route   *)
(* of an aircraft's flight management system, as a state machine.          *)
(*                                                                         *)
(* A string is a sequence of one-character strings, so that split, join,   *)
(* replace and indexOf are computed character by character as JavaScript   *)
(* computes them.  Every fix and procedure name of the navigation library  *)
(* fixture is one character long.                                          *)
(*                                                                         *)
(* WaypointModel is the second source file: its fields are the variable    *)
(* waypoint.                                                               *)
(*                                                                         *)
(* LegModel, NavigationLibrary and the route constants are not among the   *)
(* source files; they are modelled from the specification (section 4.2,    *)
(* section 4.3 and section 6).                                             *)
(***************************************************************************)
EXTENDS Integers, Sequences, FiniteSets, TLC

VARIABLES
    legCollection,          \* RouteModel#_legCollection: the remaining legs
    previousLegCollection,  \* RouteModel#_previousLegCollection: the flown legs
    returned,               \* what the last call returned: "true", "false", "void",
                            \* "this", or "error" when it threw
    routeStringArg,         \* the route string given to the last init()
    history,                \* the replace calls, in order, and the number of reset
                            \* calls made since construction
    waypoint                \* the fields of a WaypointModel, null before it is
                            \* constructed

vars == <<legCollection, previousLegCollection, returned, routeStringArg, history,
          waypoint>>

-----------------------------------------------------------------------------
(* Bounds *)

\* the number of direct chunks of the route strings a route is constructed from
MaxChunks == 2

\* the number of direct chunks of the route strings of Spec, whose routes
\* are also changed by the replace operations
MaxShortChunks == 1

\* the number of replaceDepartureProcedure / replaceArrivalProcedure calls
\* in a behaviour of Spec
MaxReplacements == 1

\* the number of replaceArrivalProcedure calls in a behaviour of SpecArrival
MaxArrivalCalls == 2

\* the number of reset() calls in a behaviour of SpecLifecycle
MaxResets == 1

\* the number of elements of the chained route strings a route is
\* constructed from in SpecConstruct
MaxTokens == 7

-----------------------------------------------------------------------------
(* Constants of constants/routeConstants and constants/globalConstants: direct
   segments are divided by two dots, the elements of a procedure or airway
   segment by one *)

DIRECT_SEGMENT_DIVIDER == <<".", ".">>

PROCEDURE_OR_AIRWAY_SEGMENT_DIVIDER == <<".">>

INVALID_INDEX == 0 - 1

\* the "no constraint" value of an altitude
INVALID_NUMBER == 0 - 1

\* Infinity, what Math.min() returns without arguments, and -Infinity, what
\* Math.max() returns without arguments: beyond every altitude
Infinity == 1000000

NegativeInfinity == 0 - Infinity

-----------------------------------------------------------------------------
(* JavaScript and lodash string and array primitives *)

\* whether pattern pat occurs in s at (1-based) position i
OccursAt(s, pat, i) ==
    /\ i + Len(pat) - 1 <= Len(s)
    /\ \A k \in 1..Len(pat) : s[i + k - 1] = pat[k]

\* String.prototype.indexOf: 0-based index of the first occurrence, else -1
IndexOf(s, pat) ==
    LET hits == {i \in 1..(Len(s) + 1) : OccursAt(s, pat, i)}
    IN  IF hits = {} THEN INVALID_INDEX
        ELSE (CHOOSE i \in hits : \A j \in hits : i <= j) - 1

RECURSIVE SplitFrom(_, _, _, _)
SplitFrom(s, sep, i, piece) ==
    IF i > Len(s) THEN <<piece>>
    ELSE IF OccursAt(s, sep, i)
         THEN <<piece>> \o SplitFrom(s, sep, i + Len(sep), <<>>)
         ELSE SplitFrom(s, sep, i + 1, Append(piece, s[i]))

\* String.prototype.split with a non-empty string separator
Split(s, sep) == SplitFrom(s, sep, 1, <<>>)

RECURSIVE Join(_, _)
\* Array.prototype.join
Join(pieces, sep) ==
    IF Len(pieces) = 0 THEN <<>>
    ELSE IF Len(pieces) = 1 THEN pieces[1]
    ELSE pieces[1] \o sep \o Join(Tail(pieces), sep)

\* Array.prototype.splice(0, count): the elements removed (Take) and the
\* elements left (Drop); count is clamped to the length, as JavaScript does
Take(list, count) ==
    IF count >= Len(list) THEN list
    ELSE IF count <= 0 THEN <<>>
    ELSE SubSeq(list, 1, count)

Drop(list, count) ==
    IF count >= Len(list) THEN <<>>
    ELSE IF count <= 0 THEN list
    ELSE SubSeq(list, count + 1, Len(list))

\* String.prototype.replace with a string pattern: the first occurrence only
ReplaceFirst(s, pat, with) ==
    LET at == IndexOf(s, pat)
    IN  IF at = INVALID_INDEX THEN s
        ELSE Take(s, at) \o with \o Drop(s, at + Len(pat))

RECURSIVE Chunk(_, _)
\* lodash _chunk
Chunk(list, size) ==
    IF Len(list) = 0 THEN <<>>
    ELSE IF Len(list) <= size THEN <<list>>
    ELSE <<Take(list, size)>> \o Chunk(Drop(list, size), size)

\* lodash _first and _last (of a non-empty array)
First(list) == list[1]

Last(list) == list[Len(list)]

\* lodash _without: the values of a list other than the excluded one
Without(values, valueToExclude) ==
    SelectSeq(values, LAMBDA value : value # valueToExclude)

\* Math.min(...values) and Math.max(...values)
MathMin(values) ==
    IF Len(values) = 0 THEN Infinity
    ELSE CHOOSE v \in {values[i] : i \in 1..Len(values)} :
             \A i \in 1..Len(values) : v <= values[i]

MathMax(values) ==
    IF Len(values) = 0 THEN NegativeInfinity
    ELSE CHOOSE v \in {values[i] : i \in 1..Len(values)} :
             \A i \in 1..Len(values) : v >= values[i]

\* lodash _findIndex: 0-based index of the first element the predicate holds
\* of, else -1; matches[i] is what the predicate returns for the i-th element
FindIndex(matches) ==
    LET hits == {i \in 1..Len(matches) : matches[i]}
    IN  IF hits = {} THEN INVALID_INDEX
        ELSE (CHOOSE i \in hits : \A j \in hits : i <= j) - 1

-----------------------------------------------------------------------------
(* NavigationLibrary fixture (specification, section 6) *)

FixNames == {<<"a">>, <<"b">>}

SidNames == {<<"s">>}

StarNames == {<<"t">>}

ProcedureNames == SidNames \cup StarNames

\* the fix every procedure of the fixture passes between its entry and its exit
ProcedureFix == <<"m">>

-----------------------------------------------------------------------------
(* LegModel (specification, section 4.2) *)

\* whether the navigation library resolves the segment: a bare fix name,
\* ENTRY.NAME.EXIT, or NAME.EXIT
LegResolves(segment) ==
    LET elements == Split(segment, PROCEDURE_OR_AIRWAY_SEGMENT_DIVIDER)
    IN  \/ Len(elements) = 1 /\ elements[1] \in FixNames
        \/ /\ Len(elements) = 3
           /\ elements[1] \in FixNames
           /\ elements[2] \in ProcedureNames
           /\ elements[3] \in FixNames
        \/ /\ Len(elements) = 2
           /\ elements[1] \in ProcedureNames
           /\ elements[2] \in FixNames

\* new LegModel(navigationLibrary, segment), for a segment that resolves
LegModel(segment) ==
    LET elements == Split(segment, PROCEDURE_OR_AIRWAY_SEGMENT_DIVIDER)
        name == IF Len(elements) = 3 THEN elements[2]
                ELSE IF Len(elements) = 2 THEN elements[1]
                ELSE <<>>
    IN  [ routeString |-> segment,
          waypoints |-> IF Len(elements) = 3
                            THEN <<elements[1], ProcedureFix, elements[3]>>
                        ELSE IF Len(elements) = 2
                            THEN <<ProcedureFix, elements[2]>>
                        ELSE <<elements[1]>>,
          previousWaypoints |-> <<>>,
          isSidLeg |-> name \in SidNames,
          isStarLeg |-> name \in StarNames ]

LegHasNextWaypoint(leg) == Len(leg.waypoints) > 1

LegHasWaypoint(leg, waypointName) ==
    \E i \in 1..Len(leg.waypoints) : leg.waypoints[i] = waypointName

LegCurrentWaypoint(leg) == leg.waypoints[1]

\* LegModel#skipToNextWaypoint: the current waypoint moves to the flown waypoints
LegSkipToNextWaypoint(leg) ==
    [leg EXCEPT !.waypoints = Tail(@),
                !.previousWaypoints = Append(@, Head(leg.waypoints))]

\* LegModel#skipToWaypoint: the waypoints before the named one move to the
\* flown waypoints; the leg is unchanged when it has no such waypoint
LegSkipToWaypoint(leg, waypointName) ==
    LET waypointIndex == FindIndex([i \in 1..Len(leg.waypoints) |-> leg.waypoints[i] = waypointName])
    IN  IF waypointIndex = INVALID_INDEX THEN leg
        ELSE [leg EXCEPT !.waypoints = Drop(@, waypointIndex),
                         !.previousWaypoints = @ \o Take(leg.waypoints, waypointIndex)]

\* what LegModel#skipToWaypoint returns
LegSkipToWaypointResult(leg, waypointName) ==
    IF LegHasWaypoint(leg, waypointName) THEN "true" ELSE "false"

\* the procedure a leg was constructed for, the empty string for a direct leg
LegProcedureName(leg) ==
    LET elements == Split(leg.routeString, PROCEDURE_OR_AIRWAY_SEGMENT_DIVIDER)
    IN  IF Len(elements) = 3 THEN elements[2]
        ELSE IF Len(elements) = 2 THEN elements[1]
        ELSE <<>>

\* LegModel#getProcedureBottomAltitude and LegModel#getProcedureTopAltitude:
\* the waypoints of the fixture's SID are restricted to altitudes from 30 to
\* 50, those of its STAR from 20 to 100, and a fix has no restriction
LegGetProcedureBottomAltitude(leg) ==
    IF LegProcedureName(leg) \in SidNames THEN 30
    ELSE IF LegProcedureName(leg) \in StarNames THEN 20
    ELSE INVALID_NUMBER

LegGetProcedureTopAltitude(leg) ==
    IF LegProcedureName(leg) \in SidNames THEN 50
    ELSE IF LegProcedureName(leg) \in StarNames THEN 100
    ELSE INVALID_NUMBER

-----------------------------------------------------------------------------
(* RouteModel: private methods *)

\* _divideRouteStringIntoSegments: the first parameter says whether the
\* argument is a string at all; "error" stands for the TypeError thrown
DivideThrowsOfNonStringsOnly(isString, routeString) == ~isString

DivideThrows(isString, routeString) ==
    \/ ~isString
    \/ IndexOf(routeString, <<" ">>) # INVALID_INDEX

RECURSIVE ChainSegmentsWithoutExit(_, _)
\* the inner loop (j) without the exit of the previous segment
ChainSegmentsWithoutExit(segments, j) ==
    IF j > Len(segments) THEN <<>>
    ELSE <<Join(segments[j], PROCEDURE_OR_AIRWAY_SEGMENT_DIVIDER)>>
         \o ChainSegmentsWithoutExit(segments, j + 1)

RECURSIVE ChainSegments(_, _)
\* the inner loop (j) of _divideRouteStringIntoSegments over segments[from..]
ChainSegments(segments, j) ==
    IF j > Len(segments) THEN <<>>
    ELSE <<Last(segments[j - 1]) \o <<".">>
            \o Join(segments[j], PROCEDURE_OR_AIRWAY_SEGMENT_DIVIDER)>>
         \o ChainSegments(segments, j + 1)

\* the body of the outer loop (i) for one chained route string
SegmentsOfChain(chainedRouteString) ==
    LET elementsInChain == Split(chainedRouteString, PROCEDURE_OR_AIRWAY_SEGMENT_DIVIDER)
        firstSegment == Take(elementsInChain, 3)
        rest == Drop(elementsInChain, 3)
        segments == <<firstSegment>> \o Chunk(rest, 2)
    IN  <<Join(firstSegment, PROCEDURE_OR_AIRWAY_SEGMENT_DIVIDER)>>
        \o ChainSegments(segments, 2)

RECURSIVE SegmentsOfChains(_)
SegmentsOfChains(chainedRouteStrings) ==
    IF Len(chainedRouteStrings) = 0 THEN <<>>
    ELSE SegmentsOfChain(chainedRouteStrings[1])
         \o SegmentsOfChains(Tail(chainedRouteStrings))

DivideRouteStringIntoSegments(routeString) ==
    SegmentsOfChains(Split(routeString, DIRECT_SEGMENT_DIVIDER))

RECURSIVE MergeLegRouteStrings(_, _, _)
\* the loop of _calculateRouteStringForLegs from index i on
MergeLegRouteStrings(legRouteStrings, i, directRouteSegments) ==
    IF i > Len(legRouteStrings) THEN directRouteSegments
    ELSE LET exitOfPreviousLeg ==
                 Last(Split(legRouteStrings[i - 1], PROCEDURE_OR_AIRWAY_SEGMENT_DIVIDER))
             leg == legRouteStrings[i]
             legEntry == First(Split(leg, PROCEDURE_OR_AIRWAY_SEGMENT_DIVIDER))
             indexOfPreviousLeg == Len(directRouteSegments)
         IN  IF legEntry = exitOfPreviousLeg
             THEN MergeLegRouteStrings(legRouteStrings, i + 1,
                      [directRouteSegments EXCEPT
                          ![indexOfPreviousLeg] = @ \o ReplaceFirst(leg, legEntry, <<>>)])
             ELSE MergeLegRouteStrings(legRouteStrings, i + 1,
                      Append(directRouteSegments, leg))

\* _calculateRouteStringForLegs without the merge of legs that share a fix
CalculateRouteStringForLegsNoMerge(legs) ==
    Join([i \in 1..Len(legs) |-> legs[i].routeString], DIRECT_SEGMENT_DIVIDER)

\* _calculateRouteStringForLegs of a non-empty leg collection
CalculateRouteStringForLegs(legs) ==
    LET legRouteStrings == [i \in 1..Len(legs) |-> legs[i].routeString]
    IN  Join(MergeLegRouteStrings(legRouteStrings, 2, <<First(legRouteStrings)>>),
             DIRECT_SEGMENT_DIVIDER)

\* whether _generateLegsFromRouteString throws: the division throws or the
\* construction of some leg does
GenerateLegsThrows(isString, routeString) ==
    \/ DivideThrows(isString, routeString)
    \/ \E i \in 1..Len(DivideRouteStringIntoSegments(routeString)) :
           ~LegResolves(DivideRouteStringIntoSegments(routeString)[i])

GenerateLegsFromRouteString(routeString) ==
    LET segments == DivideRouteStringIntoSegments(routeString)
    IN  [i \in 1..Len(segments) |-> LegModel(segments[i])]

RECURSIVE Waypoints(_)
\* get waypoints: the (remaining) waypoints of all legs of a collection
Waypoints(legs) ==
    IF Len(legs) = 0 THEN <<>>
    ELSE legs[1].waypoints \o Waypoints(Tail(legs))

\* _verifyRouteContainsMultipleWaypoints that accepts a single waypoint
VerifyThrowsWhenEmpty(legs) == Len(Waypoints(legs)) < 1

\* whether _verifyRouteContainsMultipleWaypoints throws
VerifyThrows(legs) == Len(Waypoints(legs)) < 2

-----------------------------------------------------------------------------
(* RouteModel: getters and queries *)

\* get currentLeg throws when the route has no leg
CurrentLegThrows == Len(legCollection) < 1

CurrentLeg == legCollection[1]

CurrentWaypoint == LegCurrentWaypoint(CurrentLeg)

HasNextLeg == Len(legCollection) > 1

\* null, where a getter returns it in the place of a leg or of a waypoint;
\* no leg and no waypoint name is the empty string
Null == <<>>

\* get nextLeg
NextLeg == IF ~HasNextLeg THEN Null ELSE legCollection[2]

\* hasNextWaypoint() that looks no further than the current leg
HasNextWaypointInLegOnly == LegHasNextWaypoint(CurrentLeg)

\* hasNextWaypoint(), of a route that has a current leg; the current
\* waypoint of a leg without waypoints is nil
HasNextWaypoint ==
    IF LegHasNextWaypoint(CurrentLeg) THEN TRUE
    ELSE IF ~HasNextLeg THEN FALSE
    ELSE Len(NextLeg.waypoints) > 0

\* get nextWaypoint
NextWaypoint ==
    IF ~HasNextWaypoint THEN Null
    ELSE IF LegHasNextWaypoint(CurrentLeg) THEN CurrentLeg.waypoints[2]
    ELSE LegCurrentWaypoint(NextLeg)

\* hasWaypoint(waypointName)
HasWaypoint(waypointName) ==
    \E i \in 1..Len(legCollection) : LegHasWaypoint(legCollection[i], waypointName)

\* get routeString and get fullRouteString
RouteString == CalculateRouteStringForLegs(legCollection)

FullRouteStringOfRemainingFirst ==
    CalculateRouteStringForLegs(legCollection \o previousLegCollection)

FullRouteString == CalculateRouteStringForLegs(previousLegCollection \o legCollection)

\* getRouteStringWithSpaces(): String.prototype.replace with a string as
\* pattern replaces the first occurrence
GetRouteStringWithSpaces ==
    ReplaceFirst(ReplaceFirst(RouteString, DIRECT_SEGMENT_DIVIDER, <<" ">>),
                 PROCEDURE_OR_AIRWAY_SEGMENT_DIVIDER, <<" ">>)

\* getBottomAltitude() without the exclusion of INVALID_NUMBER
GetBottomAltitudeKeepsInvalid ==
    MathMin([i \in 1..Len(legCollection) |->
                 LegGetProcedureBottomAltitude(legCollection[i])])

\* getBottomAltitude()
GetBottomAltitude ==
    LET valueToExclude == INVALID_NUMBER
        minAltitudeFromLegs ==
            Without([i \in 1..Len(legCollection) |->
                         LegGetProcedureBottomAltitude(legCollection[i])],
                    valueToExclude)
    IN  MathMin(minAltitudeFromLegs)

\* this.legCollection, which getTopAltitude() reads: RouteModel has a property
\* _legCollection and none of this name, so the read gives undefined, which
\* lodash _map takes for an empty collection
LegCollectionProperty == <<>>

\* getTopAltitude()
GetTopAltitude ==
    LET maxAltitudeFromLegs ==
            [i \in 1..Len(LegCollectionProperty) |->
                 LegGetProcedureTopAltitude(LegCollectionProperty[i])]
    IN  MathMax(maxAltitudeFromLegs)

-----------------------------------------------------------------------------
(* Inputs *)

Direct(fix) == <<fix>>

Procedure(entry, name, exit) == <<entry, ".", name, ".", exit>>

\* the direct chunks route strings are built from: two fixes, a SID, a STAR,
\* a SID chained to a STAR, and a STAR named without its entry
Chunks ==
    { Direct("a"), Direct("b"),
      Procedure("a", "s", "b"), Procedure("b", "t", "a"),
      Procedure("a", "s", "b") \o <<".", "t", ".", "a">>,
      <<"t", ".", "a">> }

\* the chunks of the routes the replace operations act on: a fix, the SID,
\* the STAR and the SID chained to the STAR
ShortChunks == Chunks \ { Direct("b"), <<"t", ".", "a">> }

RECURSIVE ChunkLists(_, _)
ChunkLists(chunks, n) ==
    IF n = 0 THEN {<<>>}
    ELSE ChunkLists(chunks, n - 1)
         \cup {Append(l, c) : l \in {k \in ChunkLists(chunks, n - 1) : Len(k) = n - 1},
                              c \in chunks}

\* the route strings of at most n direct chunks
RouteStringsOf(chunks, n) ==
    {Join(l, DIRECT_SEGMENT_DIVIDER) : l \in ChunkLists(chunks, n) \ {<<>>}}

\* the route strings a route is constructed from
RouteStrings == RouteStringsOf(Chunks, MaxChunks)

\* the route strings a route is constructed from in Spec
ShortRouteStrings == RouteStringsOf(ShortChunks, MaxShortChunks)

\* the route strings init() is given after a reset(): a route, a single fix,
\* an unknown fix after a known one, and a string with a space
InitStrings ==
    { <<"b", ".", ".", "a">>, <<"a">>, <<"a", ".", ".", "x">>, <<"a", " ", "b">> }

\* the route strings the replace operations are given in Spec: a SID, a STAR
\* and a procedure the navigation library does not know
ReplaceStrings ==
    { Procedure("b", "s", "a"), Procedure("a", "t", "b"), Procedure("a", "x", "b") }

\* the route strings replaceArrivalProcedure is given in SpecArrival: a
\* second STAR with them
ArrivalStrings == ReplaceStrings \cup { Procedure("b", "t", "a") }

\* the elements chained route strings are made of in SpecConstruct
Tokens == {"a", "s", "t"}

RECURSIVE TokenLists(_)
\* the lists of exactly n elements
TokenLists(n) ==
    IF n = 0 THEN {<<>>}
    ELSE {Append(l, <<token>>) : l \in TokenLists(n - 1), token \in Tokens}

\* the chained route strings of at most MaxTokens elements
TokenStrings ==
    UNION {{Join(l, PROCEDURE_OR_AIRWAY_SEGMENT_DIVIDER) : l \in TokenLists(n)} :
               n \in 1..MaxTokens}

\* the route strings the constructor is given in SpecConstruct: those of the
\* other specifications, the chained ones, those of init(), and the empty string
\* characters that are whitespace: the space, the tab and the line feed
WhitespaceCharacters == {" ", "\t", "\n"}

ContainsWhitespace(s) == \E i \in 1..Len(s) : s[i] \in WhitespaceCharacters

\* strings of fix names with one whitespace character
WhitespaceStrings ==
    { <<"a", " ", "b">>, <<"a", "\t", "b">>, <<"a", ".", ".", "b", "\n">>,
      <<" ", "a", ".", ".", "b">> }

\* route arguments that are not strings, each written as String(value)
\* renders it: the number 42, the array ['a', 'b'] and null
NonStrings ==
    { <<"4", "2">>, <<"a", ",", "b">>, <<"n", "u", "l", "l">> }

ConstructStrings ==
    RouteStrings \cup TokenStrings \cup InitStrings \cup WhitespaceStrings \cup {<<>>}

\* the waypoint names skipToWaypointName is given; no leg has a waypoint "z"
WaypointNames == {<<"a">>, <<"b">>, <<"m">>, <<"z">>}

-----------------------------------------------------------------------------
(* RouteModel: lifecycle *)

NoHistory == [replacements |-> <<>>, resets |-> 0]

\* the record of a replace call: hadLeg says whether the remaining legs held
\* a leg of the kind the call looks for (STAR for arrival, SID for departure)
Replacement(method, routeString, value, hadLeg) ==
    [method |-> method, routeString |-> routeString, returned |-> value, hadLeg |-> hadLeg]

\* new RouteModel(navigationLibrary, routeString) whose init() does not
\* verify the legs
ConstructedUnverified(routeString) ==
    /\ ~GenerateLegsThrows(TRUE, routeString)
    /\ legCollection = GenerateLegsFromRouteString(routeString)
    /\ previousLegCollection = <<>>
    /\ returned = "this"
    /\ routeStringArg = routeString
    /\ history = NoHistory
    /\ waypoint = Null

\* new RouteModel(navigationLibrary, routeString), when init() does not throw
Constructed(routeString) ==
    /\ ~GenerateLegsThrows(TRUE, routeString)
    /\ ~VerifyThrows(GenerateLegsFromRouteString(routeString))
    /\ legCollection = GenerateLegsFromRouteString(routeString)
    /\ previousLegCollection = <<>>
    /\ returned = "this"
    /\ routeStringArg = routeString
    /\ history = NoHistory
    /\ waypoint = Null

Init == \E routeString \in RouteStrings : Constructed(routeString)

\* before new RouteModel(...) is called: there is no route
NotConstructed ==
    /\ legCollection = <<>>
    /\ previousLegCollection = <<>>
    /\ returned = "none"
    /\ routeStringArg = <<>>
    /\ history = NoHistory
    /\ waypoint = Null

\* new RouteModel(navigationLibrary, routeString) with a navigation library:
\* the constructor empties both collections and calls init(), which assigns
\* the legs (line 198) unless _generateLegsFromRouteString throws, and then
\* verifies them
Construct(routeString) ==
    /\ returned = "none"
    /\ routeStringArg' = routeString
    /\ previousLegCollection' = <<>>
    /\ IF GenerateLegsThrows(TRUE, routeString)
       THEN /\ returned' = "error"
            /\ legCollection' = <<>>
       ELSE /\ legCollection' = GenerateLegsFromRouteString(routeString)
            /\ returned' = IF VerifyThrows(GenerateLegsFromRouteString(routeString))
                           THEN "error" ELSE "this"
    /\ UNCHANGED <<history, waypoint>>

\* new RouteModel(navigationLibrary, value) of a value that is not a string
ConstructFromNonString(value) ==
    /\ returned = "none"
    /\ routeStringArg' = value
    /\ previousLegCollection' = <<>>
    /\ IF GenerateLegsThrows(FALSE, value)
       THEN /\ returned' = "error"
            /\ legCollection' = <<>>
       ELSE /\ legCollection' = GenerateLegsFromRouteString(value)
            /\ returned' = IF VerifyThrows(GenerateLegsFromRouteString(value))
                           THEN "error" ELSE "this"
    /\ UNCHANGED <<history, waypoint>>

InitShort == \E routeString \in ShortRouteStrings : Constructed(routeString)

\* reset()
Reset ==
    /\ legCollection' = <<>>
    /\ returned' = "this"
    /\ history' = [history EXCEPT !.resets = @ + 1]
    /\ UNCHANGED <<previousLegCollection, routeStringArg, waypoint>>

\* init(routeString) on a route that was reset: the assignment of line 198
\* is not reached when _generateLegsFromRouteString throws
InitRoute(routeString) ==
    /\ legCollection = <<>>
    /\ routeStringArg' = routeString
    /\ IF GenerateLegsThrows(TRUE, routeString)
       THEN /\ returned' = "error"
            /\ UNCHANGED legCollection
       ELSE /\ legCollection' = GenerateLegsFromRouteString(routeString)
            /\ returned' = IF VerifyThrows(GenerateLegsFromRouteString(routeString))
                           THEN "error" ELSE "this"
    /\ UNCHANGED <<previousLegCollection, history, waypoint>>

-----------------------------------------------------------------------------
(* WaypointModel *)

\* String.prototype.toLowerCase, over the letters waypoint names are given in
ToLowerCase(s) ==
    [i \in 1..Len(s) |-> IF s[i] = "A" THEN "a" ELSE IF s[i] = "B" THEN "b" ELSE s[i]]

\* NaN, what parseInt returns when it finds no digits: a value that is no
\* speed and no altitude
NaN == NegativeInfinity - 1

\* a !== b of two numbers: NaN is not equal to any number, itself included
StrictNotEqual(a, b) == a = NaN \/ b = NaN \/ a # b

\* the values a property of waypointProps holds: an integer number, a
\* string, or undefined when waypointProps has no such property
NumberValue(n) == [type |-> "number", number |-> n, string |-> <<>>]

StringValue(s) == [type |-> "string", number |-> 0, string |-> s]

Undefined == [type |-> "undefined", number |-> 0, string |-> <<>>]

Digits == <<"0", "1", "2", "3", "4", "5", "6", "7", "8", "9">>

IsDigit(c) == \E d \in 1..10 : Digits[d] = c

DigitValue(c) == (CHOOSE d \in 1..10 : Digits[d] = c) - 1

RECURSIVE LeadingDigitsValue(_, _, _)
\* the value of the digits of s from position i up to the first character
\* that is no digit, after the value acc of the digits before them
LeadingDigitsValue(s, i, acc) ==
    IF i > Len(s) \/ ~IsDigit(s[i]) THEN acc
    ELSE LeadingDigitsValue(s, i + 1, 10 * acc + DigitValue(s[i]))

RECURSIVE SkipSpaces(_)
SkipSpaces(s) == IF Len(s) > 0 /\ s[1] = " " THEN SkipSpaces(Tail(s)) ELSE s

\* parseInt(string, 10): leading spaces and a sign are passed, the decimal
\* digits up to the first other character are the value, and without a digit
\* there the result is NaN
ParseIntOfString(string) ==
    LET trimmed == SkipSpaces(string)
        negative == Len(trimmed) > 0 /\ trimmed[1] = "-"
        signed == Len(trimmed) > 0 /\ trimmed[1] \in {"-", "+"}
        digits == IF signed THEN Tail(trimmed) ELSE trimmed
    IN  IF Len(digits) = 0 \/ ~IsDigit(digits[1]) THEN NaN
        ELSE IF negative THEN 0 - LeadingDigitsValue(digits, 1, 0)
        ELSE LeadingDigitsValue(digits, 1, 0)

\* parseInt(value, 10): the argument is converted to a string first, which
\* for an integer number gives its decimal digits and so the number again,
\* and for undefined gives "undefined", without a digit
ParseInt(value) ==
    IF value.type = "number" THEN value.number
    ELSE IF value.type = "string" THEN ParseIntOfString(value.string)
    ELSE NaN

\* the fields as the constructor sets them before it calls init()
WaypointDefaults ==
    [ altitudeMaximum |-> 0 - 1,
      altitudeMinimum |-> 0 - 1,
      isHold |-> FALSE,
      speedMaximum |-> 0 - 1,
      speedMinimum |-> 0 - 1,
      timer |-> 0 - 999,
      holdingPatternInboundHeading |-> 0 - 1,
      isFlyOverWaypoint |-> FALSE,
      isVector |-> FALSE,
      legLength |-> <<>>,
      name |-> <<>>,
      positionModel |-> "null",
      turnDirection |-> "" ]

\* the properties of a waypoint that holds: those init() reads with _get
HoldProps ==
    [ isHold : {TRUE},
      timer : {0 - 999, 5},
      holdingPatternInboundHeading : {0, 3},
      legLength : {<<"1", "m", "i", "n">>, <<"3", "n", "m">>},
      turnDirection : {"left", "right"} ]

\* the properties of a waypoint that does not: init() finds none of them
NoHoldProps == [isHold |-> FALSE]

\* the waypointProps the constructor is given
WaypointProps ==
    [ name : {<<"A", "b">>, <<"_", "r">>},
      positionModel : {"position"},
      speedMaximum : {NumberValue(0 - 1), NumberValue(25), Undefined},
      speedMinimum : {NumberValue(0 - 1), StringValue(<<"2", "0">>)},
      altitudeMaximum : {NumberValue(0 - 1), StringValue(<<"1", "0", "0", "f", "t">>),
                         StringValue(<<"-", "1">>)},
      altitudeMinimum : {NumberValue(0 - 1), NumberValue(30), StringValue(<<>>)},
      isFlyOverWaypoint : BOOLEAN,
      isVector : BOOLEAN,
      hold : {NoHoldProps}
                 \cup {h \in HoldProps : h.timer = 5 /\ h.holdingPatternInboundHeading = 3} ]

\* init(waypointProps) on the fields it finds; _get returns the field's
\* value when waypointProps has no such property
WaypointInit(fields, waypointProps) ==
    LET holds == waypointProps.hold.isHold
    IN  [ fields EXCEPT
            !.name = ToLowerCase(waypointProps.name),
            !.positionModel = waypointProps.positionModel,
            !.speedMaximum = ParseInt(waypointProps.speedMaximum),
            !.speedMinimum = ParseInt(waypointProps.speedMinimum),
            !.altitudeMaximum = ParseInt(waypointProps.altitudeMaximum),
            !.altitudeMinimum = ParseInt(waypointProps.altitudeMinimum),
            !.isFlyOverWaypoint = waypointProps.isFlyOverWaypoint,
            !.isVector = waypointProps.isVector,
            !.isHold = IF holds THEN waypointProps.hold.isHold ELSE @,
            !.timer = IF holds THEN waypointProps.hold.timer ELSE @,
            !.holdingPatternInboundHeading =
                IF holds THEN waypointProps.hold.holdingPatternInboundHeading ELSE @,
            !.legLength = IF holds THEN waypointProps.hold.legLength ELSE @,
            !.turnDirection = IF holds THEN waypointProps.hold.turnDirection ELSE @ ]

\* get hasAltitudeRestriction
HasAltitudeRestriction ==
    \/ StrictNotEqual(waypoint.altitudeMaximum, 0 - 1)
    \/ StrictNotEqual(waypoint.altitudeMinimum, 0 - 1)

\* get hasSpeedRestriction that looks at the maximum only
HasSpeedRestrictionOfMaximum == StrictNotEqual(waypoint.speedMaximum, 0 - 1)

\* get hasSpeedRestriction
HasSpeedRestriction ==
    \/ StrictNotEqual(waypoint.speedMaximum, 0 - 1)
    \/ StrictNotEqual(waypoint.speedMinimum, 0 - 1)

\* get hasRestriction
HasRestriction == HasAltitudeRestriction \/ HasSpeedRestriction

\* new WaypointModel(waypointProps)
WaypointConstruct(waypointProps) ==
    /\ waypoint = Null
    /\ waypoint' = WaypointInit(WaypointDefaults, waypointProps)
    /\ UNCHANGED <<legCollection, previousLegCollection, returned, routeStringArg,
                   history>>

\* updateWaypointWithHoldProps(inboundHeading, turnDirection, legLength)
UpdateWaypointWithHoldProps(inboundHeading, turnDirection, legLength) ==
    /\ waypoint # Null
    /\ waypoint' = [ waypoint EXCEPT
                        !.isHold = TRUE,
                        !.holdingPatternInboundHeading = inboundHeading,
                        !.turnDirection = turnDirection,
                        !.legLength = legLength ]
    /\ UNCHANGED <<legCollection, previousLegCollection, returned, routeStringArg,
                   history>>

\* destroy()
WaypointDestroy ==
    /\ waypoint # Null
    /\ waypoint' = [ waypoint EXCEPT
                        !.name = <<>>,
                        !.turnDirection = "",
                        !.legLength = <<>>,
                        !.positionModel = "null",
                        !.isHold = FALSE,
                        !.speedMaximum = 0 - 1,
                        !.speedMinimum = 0 - 1,
                        !.altitudeMaximum = 0 - 1,
                        !.altitudeMinimum = 0 - 1,
                        !.timer = 0 - 999 ]
    /\ UNCHANGED <<legCollection, previousLegCollection, returned, routeStringArg,
                   history>>

-----------------------------------------------------------------------------
(* RouteModel: navigation *)

\* skipToNextLeg() without the hasNextLeg() guard
SkipToNextLegUnguarded ==
    /\ legCollection' = Tail(legCollection)
    /\ previousLegCollection' = Append(previousLegCollection, legCollection[1])
    /\ returned' = "void"
    /\ UNCHANGED <<routeStringArg, history, waypoint>>

\* skipToNextLeg() with unshift in the place of push
SkipToNextLegUnshifts ==
    /\ IF ~HasNextLeg
       THEN UNCHANGED <<legCollection, previousLegCollection>>
       ELSE /\ legCollection' = Tail(legCollection)
            /\ previousLegCollection' = <<legCollection[1]>> \o previousLegCollection
    /\ returned' = "void"
    /\ UNCHANGED <<routeStringArg, history, waypoint>>

\* skipToNextLeg() with splice(0, 2) in the place of splice(0, 1)
SkipToNextLegSplicesTwo ==
    /\ IF ~HasNextLeg
       THEN UNCHANGED <<legCollection, previousLegCollection>>
       ELSE /\ legCollection' = Drop(legCollection, 2)
            /\ previousLegCollection' = previousLegCollection \o Take(legCollection, 2)
    /\ returned' = "void"
    /\ UNCHANGED <<routeStringArg, history, waypoint>>

\* skipToNextLeg()
SkipToNextLeg ==
    /\ IF ~HasNextLeg
       THEN UNCHANGED <<legCollection, previousLegCollection>>
       ELSE /\ legCollection' = Tail(legCollection)
            /\ previousLegCollection' = Append(previousLegCollection, legCollection[1])
    /\ returned' = "void"
    /\ UNCHANGED <<routeStringArg, history, waypoint>>

\* skipToNextWaypoint() that, leaving a leg, does not keep it as flown
SkipToNextWaypointDropsLeg ==
    /\ IF CurrentLegThrows
       THEN /\ returned' = "error"
            /\ UNCHANGED <<legCollection, previousLegCollection>>
       ELSE /\ returned' = "void"
            /\ IF ~LegHasNextWaypoint(CurrentLeg)
               THEN IF ~HasNextLeg
                    THEN UNCHANGED <<legCollection, previousLegCollection>>
                    ELSE /\ legCollection' = Tail(legCollection)
                         /\ UNCHANGED previousLegCollection
               ELSE /\ legCollection' =
                           [legCollection EXCEPT ![1] = LegSkipToNextWaypoint(@)]
                    /\ UNCHANGED previousLegCollection
    /\ UNCHANGED <<routeStringArg, history, waypoint>>

\* skipToNextWaypoint() that leaves the current leg whether or not it has a
\* next waypoint
SkipToNextWaypointLeavesLeg ==
    /\ IF CurrentLegThrows
       THEN /\ returned' = "error"
            /\ UNCHANGED <<legCollection, previousLegCollection>>
       ELSE /\ returned' = "void"
            /\ IF ~HasNextLeg
               THEN UNCHANGED <<legCollection, previousLegCollection>>
               ELSE /\ legCollection' = Tail(legCollection)
                    /\ previousLegCollection' =
                           Append(previousLegCollection, legCollection[1])
    /\ UNCHANGED <<routeStringArg, history, waypoint>>

\* skipToNextWaypoint()
SkipToNextWaypoint ==
    /\ IF CurrentLegThrows
       THEN /\ returned' = "error"
            /\ UNCHANGED <<legCollection, previousLegCollection>>
       ELSE /\ returned' = "void"
            /\ IF ~LegHasNextWaypoint(CurrentLeg)
               THEN IF ~HasNextLeg
                    THEN UNCHANGED <<legCollection, previousLegCollection>>
                    ELSE /\ legCollection' = Tail(legCollection)
                         /\ previousLegCollection' =
                                Append(previousLegCollection, legCollection[1])
               ELSE /\ legCollection' =
                           [legCollection EXCEPT ![1] = LegSkipToNextWaypoint(@)]
                    /\ UNCHANGED previousLegCollection
    /\ UNCHANGED <<routeStringArg, history, waypoint>>

\* skipToWaypointName(waypointName) without the hasWaypoint() guard, that
\* returns true after the last skip, whatever that skip returned
SkipToWaypointNameUnguarded(waypointName) ==
    /\ LET skipped ==
               IF LegHasWaypoint(CurrentLeg, waypointName)
               THEN [legCollection EXCEPT ![1] = LegSkipToWaypoint(@, waypointName)]
               ELSE legCollection
           legIndex == FindIndex([i \in 1..Len(skipped) |->
                                        LegHasWaypoint(skipped[i], waypointName)])
           legModelsToMove == Take(skipped, legIndex)
           remaining == Drop(skipped, legIndex)
       IN  /\ previousLegCollection' = previousLegCollection \o legModelsToMove
           /\ legCollection' =
                  [remaining EXCEPT ![1] = LegSkipToWaypoint(@, waypointName)]
           /\ returned' = "true"
    /\ UNCHANGED <<routeStringArg, history, waypoint>>

\* skipToWaypointName(waypointName) that does not keep the legs it passes
SkipToWaypointNameDropsLegs(waypointName) ==
    /\ IF ~HasWaypoint(waypointName)
       THEN /\ returned' = "false"
            /\ UNCHANGED <<legCollection, previousLegCollection>>
       ELSE LET skipped ==
                    IF LegHasWaypoint(CurrentLeg, waypointName)
                    THEN [legCollection EXCEPT ![1] = LegSkipToWaypoint(@, waypointName)]
                    ELSE legCollection
                legIndex == FindIndex([i \in 1..Len(skipped) |->
                                        LegHasWaypoint(skipped[i], waypointName)])
                remaining == Drop(skipped, legIndex)
            IN  /\ UNCHANGED previousLegCollection
                /\ legCollection' =
                       [remaining EXCEPT ![1] = LegSkipToWaypoint(@, waypointName)]
                /\ returned' = LegSkipToWaypointResult(remaining[1], waypointName)
    /\ UNCHANGED <<routeStringArg, history, waypoint>>

\* skipToWaypointName(waypointName)
SkipToWaypointName(waypointName) ==
    /\ IF ~HasWaypoint(waypointName)
       THEN /\ returned' = "false"
            /\ UNCHANGED <<legCollection, previousLegCollection>>
       ELSE LET skipped ==
                    IF LegHasWaypoint(CurrentLeg, waypointName)
                    THEN [legCollection EXCEPT ![1] = LegSkipToWaypoint(@, waypointName)]
                    ELSE legCollection
                legIndex == FindIndex([i \in 1..Len(skipped) |->
                                        LegHasWaypoint(skipped[i], waypointName)])
                legModelsToMove == Take(skipped, legIndex)
                remaining == Drop(skipped, legIndex)
            IN  /\ previousLegCollection' = previousLegCollection \o legModelsToMove
                /\ legCollection' =
                       [remaining EXCEPT ![1] = LegSkipToWaypoint(@, waypointName)]
                /\ returned' = LegSkipToWaypointResult(remaining[1], waypointName)
    /\ UNCHANGED <<routeStringArg, history, waypoint>>

-----------------------------------------------------------------------------
(* RouteModel: procedure replacement *)

\* replaceArrivalProcedure(routeString) that removes the STAR leg before it
\* constructs the new one
ReplaceArrivalProcedureRemovesFirst(routeString) ==
    /\ LET starLegIndex == FindIndex([i \in 1..Len(legCollection) |-> legCollection[i].isStarLeg])
           without == IF starLegIndex = INVALID_INDEX THEN legCollection
                      ELSE Take(legCollection, starLegIndex)
                           \o Drop(legCollection, starLegIndex + 1)
       IN  IF ~LegResolves(routeString)
           THEN /\ returned' = "false"
                /\ legCollection' = without
           ELSE /\ legCollection' =
                       IF starLegIndex = INVALID_INDEX
                       THEN Append(legCollection, LegModel(routeString))
                       ELSE [legCollection EXCEPT ![starLegIndex + 1] = LegModel(routeString)]
                /\ returned' = "true"
    /\ history' = [history EXCEPT !.replacements = Append(@,
           Replacement("replaceArrivalProcedure", routeString, returned',
                       \E i \in 1..Len(legCollection) : legCollection[i].isStarLeg))]
    /\ UNCHANGED <<previousLegCollection, routeStringArg, waypoint>>

\* replaceArrivalProcedure(routeString) that always pushes the new leg
ReplaceArrivalProcedureAlwaysPushes(routeString) ==
    /\ IF ~LegResolves(routeString)
       THEN /\ returned' = "false"
            /\ UNCHANGED legCollection
       ELSE /\ legCollection' = Append(legCollection, LegModel(routeString))
            /\ returned' = "true"
    /\ history' = [history EXCEPT !.replacements = Append(@,
           Replacement("replaceArrivalProcedure", routeString, returned',
                       \E i \in 1..Len(legCollection) : legCollection[i].isStarLeg))]
    /\ UNCHANGED <<previousLegCollection, routeStringArg, waypoint>>

\* replaceArrivalProcedure(routeString)
ReplaceArrivalProcedure(routeString) ==
    /\ IF ~LegResolves(routeString)
       THEN /\ returned' = "false"
            /\ UNCHANGED legCollection
       ELSE LET starLegModel == LegModel(routeString)
                starLegIndex == FindIndex([i \in 1..Len(legCollection) |-> legCollection[i].isStarLeg])
            IN  /\ legCollection' =
                       IF starLegIndex = INVALID_INDEX
                       THEN Append(legCollection, starLegModel)
                       ELSE [legCollection EXCEPT ![starLegIndex + 1] = starLegModel]
                /\ returned' = "true"
    /\ history' = [history EXCEPT !.replacements = Append(@,
           Replacement("replaceArrivalProcedure", routeString, returned',
                       \E i \in 1..Len(legCollection) : legCollection[i].isStarLeg))]
    /\ UNCHANGED <<previousLegCollection, routeStringArg, waypoint>>

\* replaceDepartureProcedure(routeString) with push in the place of unshift
ReplaceDepartureProcedurePushes(routeString) ==
    /\ IF ~LegResolves(routeString)
       THEN /\ returned' = "false"
            /\ UNCHANGED legCollection
       ELSE LET sidLegModel == LegModel(routeString)
                sidLegIndex == FindIndex([i \in 1..Len(legCollection) |-> legCollection[i].isSidLeg])
            IN  /\ legCollection' =
                       IF sidLegIndex = INVALID_INDEX
                       THEN Append(legCollection, sidLegModel)
                       ELSE [legCollection EXCEPT ![sidLegIndex + 1] = sidLegModel]
                /\ returned' = "true"
    /\ history' = [history EXCEPT !.replacements = Append(@,
           Replacement("replaceDepartureProcedure", routeString, returned',
                       \E i \in 1..Len(legCollection) : legCollection[i].isSidLeg))]
    /\ UNCHANGED <<previousLegCollection, routeStringArg, waypoint>>

\* replaceDepartureProcedure(routeString)
ReplaceDepartureProcedure(routeString) ==
    /\ IF ~LegResolves(routeString)
       THEN /\ returned' = "false"
            /\ UNCHANGED legCollection
       ELSE LET sidLegModel == LegModel(routeString)
                sidLegIndex == FindIndex([i \in 1..Len(legCollection) |-> legCollection[i].isSidLeg])
            IN  /\ legCollection' =
                       IF sidLegIndex = INVALID_INDEX
                       THEN <<sidLegModel>> \o legCollection
                       ELSE [legCollection EXCEPT ![sidLegIndex + 1] = sidLegModel]
                /\ returned' = "true"
    /\ history' = [history EXCEPT !.replacements = Append(@,
           Replacement("replaceDepartureProcedure", routeString, returned',
                       \E i \in 1..Len(legCollection) : legCollection[i].isSidLeg))]
    /\ UNCHANGED <<previousLegCollection, routeStringArg, waypoint>>

-----------------------------------------------------------------------------

(* Specifications: each is the route after construction under the calls a
   claim speaks of *)

\* skipToNextLeg and skipToNextWaypoint
NextAdvance ==
    \/ SkipToNextLeg
    \/ SkipToNextWaypoint

SpecAdvance == Init /\ [][NextAdvance]_vars

\* the three skip operations
NextSkip ==
    \/ SkipToNextLeg
    \/ SkipToNextWaypoint
    \/ \E waypointName \in WaypointNames : SkipToWaypointName(waypointName)

SpecSkip == Init /\ [][NextSkip]_vars

\* the three skip operations and the two replace operations
Next ==
    \/ SkipToNextLeg
    \/ SkipToNextWaypoint
    \/ \E waypointName \in WaypointNames : SkipToWaypointName(waypointName)
    \/ /\ Len(history.replacements) < MaxReplacements
       /\ \E routeString \in ReplaceStrings : ReplaceArrivalProcedure(routeString)
    \/ /\ Len(history.replacements) < MaxReplacements
       /\ \E routeString \in ReplaceStrings : ReplaceDepartureProcedure(routeString)

Spec == InitShort /\ [][Next]_vars

\* successive replaceArrivalProcedure calls on a constructed route
NextArrival ==
    /\ Len(history.replacements) < MaxArrivalCalls
    /\ \E routeString \in ArrivalStrings : ReplaceArrivalProcedure(routeString)

SpecArrival == Init /\ [][NextArrival]_vars

\* the skip operations, reset() and init() on a route that was reset
NextLifecycle ==
    \/ SkipToNextLeg
    \/ SkipToNextWaypoint
    \/ \E waypointName \in WaypointNames : SkipToWaypointName(waypointName)
    \/ /\ history.resets < MaxResets
       /\ Reset
    \/ \E routeString \in InitStrings : InitRoute(routeString)

SpecLifecycle == Init /\ [][NextLifecycle]_vars

\* the construction of a route
NextConstruct ==
    \/ \E routeString \in ConstructStrings : Construct(routeString)
    \/ \E value \in NonStrings : ConstructFromNonString(value)

SpecConstruct == NotConstructed /\ [][NextConstruct]_vars

\* a waypoint: its construction, the hold it is given, and destroy()
NextWaypointModel ==
    \/ \E waypointProps \in WaypointProps : WaypointConstruct(waypointProps)
    \/ \E h \in HoldProps :
           UpdateWaypointWithHoldProps(h.holdingPatternInboundHeading,
                                       h.turnDirection, h.legLength)
    \/ WaypointDestroy

SpecWaypoint == NotConstructed /\ [][NextWaypointModel]_vars

-----------------------------------------------------------------------------
(* Properties *)

\* the legs the route had right after construction
ConstructedLegs == GenerateLegsFromRouteString(routeStringArg)

\* the state right after construction
Fresh == returned = "this" /\ history = NoHistory

\* a leg with its flown waypoints back in front of its remaining ones
Whole(leg) ==
    [leg EXCEPT !.waypoints = leg.previousWaypoints \o leg.waypoints,
                !.previousWaypoints = <<>>]

RECURSIVE WholeWaypoints(_)
\* the flown and the remaining waypoints of all legs of a collection
WholeWaypoints(legs) ==
    IF Len(legs) = 0 THEN <<>>
    ELSE Whole(legs[1]).waypoints \o WholeWaypoints(Tail(legs))

StarLegs(legs) == {i \in 1..Len(legs) : legs[i].isStarLeg}

SidLegs(legs) == {i \in 1..Len(legs) : legs[i].isSidLeg}

IsStarRouteString(routeString) ==
    LegResolves(routeString) /\ LegModel(routeString).isStarLeg

LastReplacement == history.replacements[Len(history.replacements)]

\* the last call was a replaceArrivalProcedure with a STAR route string that
\* found no STAR leg among the remaining legs and returned true
ArrivalWasAppended ==
    /\ Len(history.replacements) >= 1
    /\ LastReplacement.method = "replaceArrivalProcedure"
    /\ LastReplacement.returned = "true"
    /\ ~LastReplacement.hadLeg
    /\ IsStarRouteString(LastReplacement.routeString)

\* C1: under the three skip operations and the two replace operations, the
\* remaining legs are never empty and the first of them has a waypoint, so
\* that currentLeg and currentWaypoint are defined
C1_CurrentLegAndWaypointDefined ==
    /\ Len(legCollection) >= 1
    /\ Len(legCollection[1].waypoints) >= 1

\* a route down to its last waypoint, after a replace call and with a leg flown
C1_Witness ==
    /\ Len(history.replacements) >= 1
    /\ Len(previousLegCollection) >= 1
    /\ Len(legCollection) = 1
    /\ Len(legCollection[1].waypoints) = 1

\* C2: under skipToNextWaypoint and skipToNextLeg, the flown legs followed by
\* the remaining legs are the legs of construction, in their order
C2_FlownThenRemainingAreConstructedLegs ==
    LET all == previousLegCollection \o legCollection
    IN  /\ Len(all) = Len(ConstructedLegs)
        /\ \A i \in 1..Len(all) : Whole(all[i]) = ConstructedLegs[i]

\* two different legs are flown, one of them left from inside
C2_Witness ==
    /\ Len(previousLegCollection) >= 2
    /\ previousLegCollection[1].routeString # previousLegCollection[2].routeString
    /\ \E i \in 1..Len(previousLegCollection) :
           previousLegCollection[i].previousWaypoints # <<>>

\* C3 as claimed: under skipToNextWaypoint and skipToNextLeg, the waypoints
\* of the flown legs and of the remaining legs number what the route's
\* waypoints numbered right after construction
C3_WaypointCountUnchanged ==
    Len(Waypoints(previousLegCollection \o legCollection)) = Len(Waypoints(ConstructedLegs))

\* C3 as amended: the count is unchanged when the waypoints a leg has flown
\* are counted with its remaining ones
C3_WaypointCountWithFlownUnchanged ==
    Len(WholeWaypoints(previousLegCollection \o legCollection))
        = Len(Waypoints(ConstructedLegs))

\* a leg was flown and the current leg is past its first waypoint
C3_Witness ==
    /\ Len(previousLegCollection) >= 1
    /\ legCollection[1].previousWaypoints # <<>>

\* no direct-segment divider of the route string stands between two
\* elements that are equal
NoSharedDirectBoundary(routeString) ==
    LET chains == Split(routeString, DIRECT_SEGMENT_DIVIDER)
    IN  \A i \in 1..(Len(chains) - 1) :
            Last(Split(chains[i], PROCEDURE_OR_AIRWAY_SEGMENT_DIVIDER))
                # First(Split(chains[i + 1], PROCEDURE_OR_AIRWAY_SEGMENT_DIVIDER))

\* C4 as claimed: right after construction from a route string, the route
\* string reassembled from the legs is that route string
C4_ReassemblyReturnsRouteString ==
    Fresh => RouteString = routeStringArg

\* C4 as amended: it is, when no direct-segment divider of the route string
\* separates two segments that share their boundary element
C4_ReassemblyReturnsRouteStringUnlessShared ==
    (Fresh /\ NoSharedDirectBoundary(routeStringArg)) => RouteString = routeStringArg

\* a route of a direct leg and two chained procedure legs
C4_Witness ==
    /\ Fresh
    /\ NoSharedDirectBoundary(routeStringArg)
    /\ Len(Split(routeStringArg, DIRECT_SEGMENT_DIVIDER)) = 2
    /\ Len(legCollection) = 3

\* C5: right after construction from a route string, the reassembled route
\* string divides into the segments the route string divides into
C5_ReassemblyKeepsSegments ==
    Fresh => DivideRouteStringIntoSegments(RouteString)
                 = DivideRouteStringIntoSegments(routeStringArg)

\* the least index of a remaining leg that has the waypoint
FirstLegWith(waypointName) ==
    CHOOSE k \in 1..Len(legCollection) :
        /\ LegHasWaypoint(legCollection[k], waypointName)
        /\ \A j \in 1..(k - 1) : ~LegHasWaypoint(legCollection[j], waypointName)

\* C6: skipToWaypointName with a name no remaining leg has returns false and
\* changes neither the remaining legs, nor the flown legs, nor a cursor
C6_AbsentNameChangesNothing ==
    [][\A waypointName \in WaypointNames :
           (~HasWaypoint(waypointName) /\ SkipToWaypointName(waypointName))
               => /\ returned' = "false"
                  /\ legCollection' = legCollection
                  /\ previousLegCollection' = previousLegCollection]_vars

\* the call failed on a route that has flown a leg and is inside another
C6_Witness ==
    /\ returned = "false"
    /\ Len(previousLegCollection) >= 1
    /\ legCollection[1].previousWaypoints # <<>>

\* C7: skipToWaypointName with a name whose first remaining leg is the k-th
\* appends the k - 1 legs before it to the flown legs, leaves the legs after
\* it alone, makes it the current leg with the named waypoint current, and
\* returns true
C7_SkipsToFirstLegWithName ==
    [][\A waypointName \in WaypointNames :
           (HasWaypoint(waypointName) /\ SkipToWaypointName(waypointName))
               => LET k == FirstLegWith(waypointName)
                  IN  /\ previousLegCollection'
                             = previousLegCollection \o SubSeq(legCollection, 1, k - 1)
                      /\ Len(legCollection') = Len(legCollection) - (k - 1)
                      /\ \A j \in 2..Len(legCollection') :
                             legCollection'[j] = legCollection[j + k - 1]
                      /\ Whole(legCollection'[1]) = Whole(legCollection[k])
                      /\ legCollection'[1].waypoints[1] = waypointName
                      /\ returned' = "true"]_vars

\* the call moved a leg to the flown legs, moved the cursor of the leg it
\* found and left a leg after it
C7_Witness ==
    /\ returned = "true"
    /\ Len(previousLegCollection) >= 1
    /\ previousLegCollection[Len(previousLegCollection)].previousWaypoints = <<>>
    /\ Len(legCollection[1].previousWaypoints) >= 2
    /\ Len(legCollection) >= 2

\* C8: a replace call with a route string no leg can be constructed from
\* returns false and changes neither the remaining legs, nor the flown legs,
\* nor a cursor
C8_FailedReplaceChangesNothing ==
    [][\A routeString \in ReplaceStrings :
           (/\ ~LegResolves(routeString)
            /\ \/ ReplaceArrivalProcedure(routeString)
               \/ ReplaceDepartureProcedure(routeString))
               => /\ returned' = "false"
                  /\ legCollection' = legCollection
                  /\ previousLegCollection' = previousLegCollection]_vars

\* replaceArrivalProcedure failed on a route that holds a STAR leg and has
\* flown a leg
C8_Witness ==
    /\ Len(history.replacements) >= 1
    /\ LastReplacement.method = "replaceArrivalProcedure"
    /\ LastReplacement.returned = "false"
    /\ returned = "false"
    /\ Len(previousLegCollection) >= 1
    /\ \E i \in 1..Len(legCollection) : legCollection[i].isStarLeg

\* C9: replaceArrivalProcedure on remaining legs without a STAR leg appends
\* the new leg after them; a following replaceArrivalProcedure with another
\* STAR route string puts its leg where that leg is, the remaining legs
\* are as many as before and hold one STAR leg
C9_ArrivalAppendedThenReplaced ==
    [][\A routeString \in ArrivalStrings :
           (LegResolves(routeString) /\ ReplaceArrivalProcedure(routeString))
               => LET n == Len(legCollection)
                  IN  /\ StarLegs(legCollection) = {}
                          => /\ Len(legCollection') = n + 1
                             /\ legCollection'[n + 1] = LegModel(routeString)
                             /\ \A j \in 1..n : legCollection'[j] = legCollection[j]
                      /\ (/\ ArrivalWasAppended
                          /\ IsStarRouteString(routeString)
                          /\ routeString # LastReplacement.routeString)
                          => /\ Len(legCollection') = n
                             /\ legCollection'[n] = LegModel(routeString)
                             /\ \A j \in 1..(n - 1) : legCollection'[j] = legCollection[j]
                             /\ Cardinality(StarLegs(legCollection')) = 1]_vars

\* two successive calls with two STAR route strings, the first on a route
\* without a STAR leg
C9_Witness ==
    /\ Len(history.replacements) = 2
    /\ history.replacements[1].returned = "true"
    /\ ~history.replacements[1].hadLeg
    /\ IsStarRouteString(history.replacements[1].routeString)
    /\ history.replacements[2].returned = "true"
    /\ history.replacements[2].hadLeg
    /\ IsStarRouteString(history.replacements[2].routeString)
    /\ history.replacements[1].routeString # history.replacements[2].routeString
    /\ Len(legCollection) = Len(ConstructedLegs) + 1

C11_SkipToNextLegMovesCurrentLeg ==
    [][SkipToNextLeg
           => LET n == Len(legCollection)
                  f == Len(previousLegCollection)
              IN  IF n = 1
                  THEN /\ legCollection' = legCollection
                       /\ previousLegCollection' = previousLegCollection
                  ELSE /\ Len(legCollection') = n - 1
                       /\ \A j \in 1..(n - 1) : legCollection'[j] = legCollection[j + 1]
                       /\ Len(previousLegCollection') = f + 1
                       /\ previousLegCollection'[f + 1] = legCollection[1]
                       /\ \A j \in 1..f :
                              previousLegCollection'[j] = previousLegCollection[j]]_vars

\* skipToNextLeg left a leg it was inside of, with waypoints still to fly,
\* after another flown leg and with two legs remaining
C11_Witness ==
    /\ returned = "void"
    /\ Len(previousLegCollection) >= 2
    /\ Last(previousLegCollection).previousWaypoints # <<>>
    /\ Len(Last(previousLegCollection).waypoints) >= 2
    /\ Len(legCollection) >= 2

\* C12: skipToNextWaypoint on a current leg that has a next waypoint moves
\* the cursor of that leg by one and moves no leg; on a current leg that has
\* none the step is a skipToNextLeg step; and when nextWaypoint was not null
\* before the call, currentWaypoint after the call is that waypoint
C12_SkipToNextWaypointAdvances ==
    [][SkipToNextWaypoint
           => /\ IF LegHasNextWaypoint(CurrentLeg)
                 THEN /\ previousLegCollection' = previousLegCollection
                      /\ Len(legCollection') = Len(legCollection)
                      /\ legCollection'[1].waypoints = Tail(legCollection[1].waypoints)
                      /\ Whole(legCollection'[1]) = Whole(legCollection[1])
                      /\ \A j \in 2..Len(legCollection) :
                             legCollection'[j] = legCollection[j]
                 ELSE SkipToNextLeg
              /\ NextWaypoint # Null => CurrentWaypoint' = NextWaypoint]_vars

\* the cursor went through a leg to its last waypoint, the leg was left, and
\* the cursor is inside the leg after it
C12_Witness ==
    /\ returned = "void"
    /\ Len(previousLegCollection) >= 1
    /\ Len(Last(previousLegCollection).waypoints) = 1
    /\ Len(Last(previousLegCollection).previousWaypoints) >= 2
    /\ legCollection[1].previousWaypoints # <<>>
    /\ Len(legCollection) >= 2

RECURSIVE WaypointCount(_)
\* the number of waypoints the legs of a collection have between them
WaypointCount(legs) ==
    IF Len(legs) = 0 THEN 0
    ELSE Len(legs[1].waypoints) + WaypointCount(Tail(legs))

\* C13: the construction of a route from a route string whose legs have
\* fewer than two waypoints between them throws, and the route of a
\* construction that does not throw has two waypoints or more
C13_FewerThanTwoWaypointsFails ==
    [][\A routeString \in ConstructStrings :
           Construct(routeString)
               => /\ (/\ ~GenerateLegsThrows(TRUE, routeString)
                       /\ WaypointCount(GenerateLegsFromRouteString(routeString)) < 2)
                          => returned' = "error"
                  /\ returned' = "this" => WaypointCount(legCollection') >= 2]_vars

\* the construction from the name of one fix threw
C13_Witness ==
    /\ returned = "error"
    /\ Len(DivideRouteStringIntoSegments(routeStringArg)) = 1
    /\ LegResolves(routeStringArg)
    /\ WaypointCount(legCollection) = 1

\* C14 as claimed: in every state of a constructed route under the three
\* skip operations, the waypoints of the route are two or more
C14_AlwaysTwoWaypoints ==
    Len(Waypoints(legCollection)) >= 2

\* C14 as amended: they are two or more right after construction, and one
\* or more after skip calls
C14_TwoWaypointsAfterConstruction ==
    /\ Fresh => Len(Waypoints(legCollection)) >= 2
    /\ Len(Waypoints(legCollection)) >= 1

\* right after the construction of a route of two waypoints
C14_Witness ==
    /\ Fresh
    /\ Len(Waypoints(legCollection)) = 2
    /\ Len(legCollection) = 2

\* the top and the bottom altitudes the remaining legs report, "no constraint"
\* aside
TopAltitudes ==
    {LegGetProcedureTopAltitude(legCollection[i]) : i \in 1..Len(legCollection)}
        \ {INVALID_NUMBER}

BottomAltitudes ==
    {LegGetProcedureBottomAltitude(legCollection[i]) : i \in 1..Len(legCollection)}
        \ {INVALID_NUMBER}

\* C15: when a remaining leg reports a top altitude, getTopAltitude() returns
\* the greatest of the top altitudes the remaining legs report, "no
\* constraint" aside
C15_TopAltitudeIsMaximum ==
    TopAltitudes # {}
        => /\ GetTopAltitude \in TopAltitudes
           /\ \A altitude \in TopAltitudes : altitude <= GetTopAltitude

\* C16: when a remaining leg reports a bottom altitude, getBottomAltitude()
\* returns the least of the bottom altitudes the remaining legs report, "no
\* constraint" aside, and so does not return "no constraint"
C16_BottomAltitudeIsMinimum ==
    BottomAltitudes # {}
        => /\ GetBottomAltitude \in BottomAltitudes
           /\ \A altitude \in BottomAltitudes : GetBottomAltitude <= altitude
           /\ GetBottomAltitude # INVALID_NUMBER

\* of three remaining legs the first reports no bottom altitude and the two
\* others report different ones, the later the lower
C16_Witness ==
    /\ Len(legCollection) = 3
    /\ LegGetProcedureBottomAltitude(legCollection[1]) = INVALID_NUMBER
    /\ Cardinality(BottomAltitudes) = 2
    /\ GetBottomAltitude = LegGetProcedureBottomAltitude(legCollection[3])
    /\ GetBottomAltitude < LegGetProcedureBottomAltitude(legCollection[2])

\* the segments the claim names for a chunk of n elements: the first of the
\* elements 1 to 3, the k-th of the elements 2k - 1 to 2k + 1, as far as
\* the chunk has them
SegmentsNamedFor(chunk) ==
    LET elements == Split(chunk, PROCEDURE_OR_AIRWAY_SEGMENT_DIVIDER)
        n == Len(elements)
        count == IF n <= 3 THEN 1 ELSE 1 + (n - 2) \div 2
        upTo(last) == IF last > n THEN n ELSE last
    IN  [k \in 1..count |->
            Join(SubSeq(elements, 2 * k - 1, upTo(2 * k + 1)),
                 PROCEDURE_OR_AIRWAY_SEGMENT_DIVIDER)]

RECURSIVE SegmentsNamedForAll(_)
SegmentsNamedForAll(chunks) ==
    IF Len(chunks) = 0 THEN <<>>
    ELSE SegmentsNamedFor(chunks[1]) \o SegmentsNamedForAll(Tail(chunks))

\* C17: the segments of a route string without a space are, chunk after
\* chunk, the first three elements of the chunk and then, for each two
\* elements NAME and EXIT after them, the last element of the segment before,
\* NAME and EXIT; so each segment of a chunk ends with the element the next
\* segment of the chunk begins with
C17_SegmentsOfThreeThenTwo ==
    (returned # "none" /\ ~DivideThrows(TRUE, routeStringArg))
        => LET chunks == Split(routeStringArg, DIRECT_SEGMENT_DIVIDER)
           IN  /\ DivideRouteStringIntoSegments(routeStringArg)
                      = SegmentsNamedForAll(chunks)
               /\ \A c \in 1..Len(chunks) :
                      LET segments == DivideRouteStringIntoSegments(chunks[c])
                      IN  \A k \in 1..(Len(segments) - 1) :
                              Last(Split(segments[k], PROCEDURE_OR_AIRWAY_SEGMENT_DIVIDER))
                                  = First(Split(segments[k + 1],
                                                PROCEDURE_OR_AIRWAY_SEGMENT_DIVIDER))

\* a route was constructed from one chunk of seven elements, in three legs
C17_Witness ==
    /\ returned = "this"
    /\ Len(Split(routeStringArg, DIRECT_SEGMENT_DIVIDER)) = 1
    /\ Len(Split(routeStringArg, PROCEDURE_OR_AIRWAY_SEGMENT_DIVIDER)) = 7
    /\ Len(legCollection) = 3
    /\ \A i \in 1..3 : legCollection[i].routeString
                            = DivideRouteStringIntoSegments(routeStringArg)[i]

\* C18: nextWaypoint is the second waypoint of the current leg when that leg
\* has one, else the first waypoint of the second remaining leg, else null;
\* hasNextWaypoint() holds exactly when nextWaypoint is not null and
\* hasNextLeg() exactly when a leg remains after the current one
C18_NextWaypointIsNextInRoute ==
    LET inLeg == legCollection[1].waypoints
        expected == IF Len(inLeg) >= 2 THEN inLeg[2]
                    ELSE IF Len(legCollection) >= 2 THEN legCollection[2].waypoints[1]
                    ELSE Null
    IN  /\ NextWaypoint = expected
        /\ HasNextWaypoint <=> NextWaypoint # Null
        /\ HasNextLeg <=> Len(legCollection) >= 2

\* the current leg, with a leg flown before it, is at its last waypoint and
\* the next waypoint is the first of the leg after it
C18_Witness ==
    /\ Len(previousLegCollection) >= 1
    /\ Len(legCollection[1].waypoints) = 1
    /\ legCollection[1].previousWaypoints # <<>>
    /\ Len(legCollection) >= 2
    /\ NextWaypoint = legCollection[2].waypoints[1]
    /\ NextWaypoint # CurrentWaypoint

\* C19: an init() that throws, for a string with a space, a leg that cannot
\* be constructed or fewer than two waypoints, leaves the remaining legs as
\* they were before the call
C19_FailedInitLeavesLegsAlone ==
    [][\A routeString \in InitStrings :
           (InitRoute(routeString) /\ returned' = "error")
               => legCollection' = legCollection]_vars

\* C20: after destroy() every field of the waypoint has the value the
\* constructor gives it before init(): name, turn direction, leg length,
\* position, isHold, the four restrictions, the timer, the holding pattern's
\* inbound heading, the fly-over flag and the vector flag
C20_DestroyResetsEveryField ==
    [][WaypointDestroy => waypoint' = WaypointDefaults]_vars

\* C21: of every waypoint, constructed, given a hold or destroyed,
\* hasRestriction holds exactly when hasAltitudeRestriction or
\* hasSpeedRestriction does, and neither of the two holds exactly when the
\* four restriction fields are all -1
C21_RestrictionSymmetry ==
    waypoint # Null
        => /\ HasRestriction <=> (HasAltitudeRestriction \/ HasSpeedRestriction)
           /\ (~HasAltitudeRestriction /\ ~HasSpeedRestriction)
                  <=> /\ waypoint.altitudeMaximum = 0 - 1
                      /\ waypoint.altitudeMinimum = 0 - 1
                      /\ waypoint.speedMaximum = 0 - 1
                      /\ waypoint.speedMinimum = 0 - 1

\* a waypoint whose only restriction is a minimum speed, given as a string
C21_Witness ==
    /\ waypoint # Null
    /\ waypoint.speedMinimum = 20
    /\ waypoint.speedMaximum = 0 - 1
    /\ ~HasAltitudeRestriction
    /\ HasRestriction

\* C22 as stated: dividing a route argument that is not a string, or a
\* string with a whitespace character in it, throws, and the construction it
\* is part of fails without a leg
C22_WhitespaceAndNonStringsRejected ==
    [][/\ \A value \in NonStrings :
              ConstructFromNonString(value)
                  => /\ DivideThrows(FALSE, value)
                     /\ returned' = "error"
                     /\ legCollection' = <<>>
       /\ \A routeString \in ConstructStrings :
              (Construct(routeString) /\ ContainsWhitespace(routeString))
                  => /\ DivideThrows(TRUE, routeString)
                     /\ returned' = "error"
                     /\ legCollection' = <<>>]_vars

\* C22: dividing a route argument that is not a string, or a string with a
\* space character in it, throws, and the construction it is part of fails
\* without a leg
C22_SpacesAndNonStringsRejected ==
    [][/\ \A value \in NonStrings :
              ConstructFromNonString(value)
                  => /\ DivideThrows(FALSE, value)
                     /\ returned' = "error"
                     /\ legCollection' = <<>>
       /\ \A routeString \in ConstructStrings :
              (Construct(routeString)
                  /\ IndexOf(routeString, <<" ">>) # INVALID_INDEX)
                  => /\ DivideThrows(TRUE, routeString)
                     /\ returned' = "error"
                     /\ legCollection' = <<>>]_vars

\* a construction from two fix names with a space between them has failed
C22_Witness ==
    /\ returned = "error"
    /\ routeStringArg = <<"a", " ", "b">>
    /\ legCollection = <<>>

RECURSIVE Flatten(_)
Flatten(lists) ==
    IF lists = <<>> THEN <<>> ELSE Head(lists) \o Flatten(Tail(lists))

\* the elements of a route string: the fix, procedure and airway names
\* between its dividers, in order
ElementsOf(routeString) ==
    LET chains == Split(routeString, DIRECT_SEGMENT_DIVIDER)
    IN  Flatten([c \in 1..Len(chains)
                    |-> Split(chains[c], PROCEDURE_OR_AIRWAY_SEGMENT_DIVIDER)])

\* C23: getRouteStringWithSpaces() is the remaining route string with every
\* divider replaced by one space: no divider character is left in it, and it
\* is the elements of the route in order with a space between them
C23_EveryDividerBecomesASpace ==
    (returned # "none" /\ legCollection # <<>>)
        => /\ IndexOf(GetRouteStringWithSpaces,
                      PROCEDURE_OR_AIRWAY_SEGMENT_DIVIDER) = INVALID_INDEX
           /\ GetRouteStringWithSpaces = Join(ElementsOf(RouteString), <<" ">>)

\* C24: whatever skipToNextLeg, skipToNextWaypoint and skipToWaypointName
\* calls were made, fullRouteString is what it was right after the
\* construction, the route string of all constructed legs, and routeString is
\* the route string of the constructed legs that are not among the flown ones
C24_FullRouteStringIsKept ==
    returned # "none"
        => /\ FullRouteString = CalculateRouteStringForLegs(ConstructedLegs)
           /\ RouteString
                  = CalculateRouteStringForLegs(
                        Drop(ConstructedLegs, Len(previousLegCollection)))

\* legs were flown by a skipToWaypointName call, the current leg is flown in
\* part, and the two route strings differ
C24_Witness ==
    /\ returned = "true"
    /\ previousLegCollection # <<>>
    /\ legCollection # <<>>
    /\ CurrentLeg.previousWaypoints # <<>>
    /\ FullRouteString # RouteString

\* C25: after reset() and a successful init(s) the route is as a route newly
\* constructed for s: no leg flown before the reset is left, and
\* fullRouteString is routeString, whatever was skipped before the reset
C25_ReinitializedRouteIsFresh ==
    [][\A routeString \in InitStrings :
           (InitRoute(routeString) /\ returned' = "this")
               => /\ previousLegCollection' = <<>>
                  /\ legCollection' = GenerateLegsFromRouteString(routeString)
                  /\ FullRouteString' = RouteString']_vars

====
